---- MODULE Spec2Model ----
(***************************************************************************)
(* Crawl-server: the crawl orchestrators of web.py (crawl_sequential,      *)
(* crawl_parallel, get_pydantic_ai_docs_urls, fetch_urls) and the two      *)
(* POST handlers of api.py (crawl_urls, crawl_website).                    *)
(*                                                                         *)
(* The page-fetch engine (AsyncWebCrawler.arun) and the sitemap host are   *)
(* the environment: every fetch settles with one of three outcomes         *)
(* (a successful result, a result with success=False, a raised             *)
(* exception), and concurrent fetches of a batch settle in any order.      *)
(***************************************************************************)
EXTENDS Integers, Sequences, FiniteSets, TLC

\* ---------------------------------------------------------------- bounds
MaxUrls == 4        \* longest URL list handed to a crawl function
MaxK    == 3        \* largest max_concurrent of a direct crawl_parallel call
MaxLocs == 2        \* most <loc> elements in a sitemap document

\* --------------------------------------------------------- program values
DefaultMaxConcurrent == 3          \* web.py:121  max_concurrent: int = 3

URLS        == {"u1", "u2"}
SitemapUrls == {"sm1", "smA", "smB"}
Outcomes    == {"ok", "fail", "exc"}
HttpStatuses == {200, 404}

SeqsUpTo(S, n) == UNION {[1..m -> S] : m \in 0..n}
UrlLists == SeqsUpTo(URLS, MaxUrls)

\* a sitemap document: its <loc> elements in document order, each with the
\* element that wraps it (<url> in a urlset, <sitemap> in a sitemapindex)
LocEntries ==
    [wrapper : {"url"}, loc : URLS] \cup [wrapper : {"sitemap"}, loc : SitemapUrls]
Docs == SeqsUpTo(LocEntries, MaxLocs)

\* what requests.get(sitemap_url) can meet
Responses ==
    {[kind |-> "transport_error", status |-> 0, parseable |-> FALSE, doc |-> <<>>]}
    \cup [kind : {"http"}, status : HttpStatuses, parseable : {FALSE}, doc : {<<>>}]
    \cup [kind : {"http"}, status : HttpStatuses, parseable : {TRUE}, doc : Docs]

\* request.json of a POST: not a mapping (null, a JSON array), a mapping the
\* pydantic model rejects, or a mapping it accepts
CrawlBodies ==
    [kind : {"not_mapping", "invalid"}, urls : {<<>>}, url : {""}]
    \cup [kind : {"valid"}, urls : UrlLists, url : {""}]
SitemapBodies ==
    [kind : {"not_mapping", "invalid"}, urls : {<<>>}, url : {""}]
    \cup [kind : {"valid"}, urls : {<<>>}, url : {"sm1"}]

\* process.memory_info().rss readings, in bytes: the values a run with a
\* varying footprint reads, and the one value of a run with a steady footprint
RssValues == {1024 * 1024, 2 * 1024 * 1024 + 5, 3 * 1024 * 1024}
SteadyRss == {2 * 1024 * 1024 + 5}
MemUrlLists == SeqsUpTo({"u1"}, MaxUrls)

Min(a, b) == IF a < b THEN a ELSE b

\* result.markdown_v2.raw_markdown of a successful fetch of url
Markdown(url) ==
    CASE url = "u1" -> "md1"
      [] url = "u2" -> "md2"
      [] OTHER      -> "xml"

\* what awaiting crawler.arun(url, ...) yields: a CrawlResult or an exception
\* result.markdown_v2.fit_markdown of a successful fetch of url
FitMarkdown(url) ==
    CASE url = "u1" -> "fit1"
      [] url = "u2" -> "fit2"
      [] OTHER      -> "fitxml"

Pending == [kind |-> "pending", success |-> FALSE, raw_markdown |-> "", fit_markdown |-> ""]
arun(url, o) ==
    CASE o = "ok"   -> [kind |-> "result", success |-> TRUE,
                        raw_markdown |-> Markdown(url), fit_markdown |-> FitMarkdown(url)]
      [] o = "fail" -> [kind |-> "result", success |-> FALSE,
                        raw_markdown |-> "stale", fit_markdown |-> "stale"]
      [] OTHER      -> [kind |-> "exception", success |-> FALSE,
                        raw_markdown |-> "", fit_markdown |-> ""]

VARIABLES
    entry,           \* the operation that was invoked ("idle" before)
    pc,              \* position inside crawl_sequential / crawl_parallel
    urls,            \* the urls argument of the crawl function
    max_concurrent,  \* the max_concurrent argument of crawl_parallel
    crawler,         \* "none" | "created" | "open" | "closed"
    close_calls,     \* number of crawler.close() calls
    contents,        \* the contents list being built
    i,               \* crawl_parallel: start offset of the current batch (0-based)
    results,         \* crawl_parallel: result list of the running gather
    inflight,        \* tasks of the current batch (or the sequential fetch) not yet settled
    reordered,       \* some task settled while a task created before it was still running
    fetch_log,       \* every arun call issued: [g, url, session_id]
    outcome,         \* how the fetch of urls[g] settled ("none" before)
    peak_memory,     \* crawl_parallel: the nonlocal peak_memory, in bytes
    samples,         \* every memory_info().rss value log_memory read, with its place
    reported_peak,   \* the "Peak memory usage (MB)" value logged at the end
    exc,             \* exception propagating out of the crawl function
    ret,             \* value returned by the crawl function
    request,         \* body of the HTTP request being handled
    hpc,             \* position inside the handler
    hret,            \* what the handler returned
    sitemap_url,     \* the sitemap_url argument of get_pydantic_ai_docs_urls
    to_fetch,        \* sitemap URLs the resolver still has to request
    sitemap_fetches, \* number of requests.get calls issued
    sitemap,         \* the response the sitemap host gave
    resolved         \* what get_pydantic_ai_docs_urls returned

vars == <<entry, pc, urls, max_concurrent, crawler, close_calls, contents, i,
          results, inflight, reordered, fetch_log, outcome, exc, ret, request, hpc, hret,
          peak_memory, samples, reported_peak,
          sitemap_url, to_fetch, sitemap_fetches, sitemap, resolved>>

memVars     == <<peak_memory, samples, reported_peak>>
crawlVars   == <<pc, urls, max_concurrent, crawler, close_calls, contents, i,
                 results, inflight, reordered, fetch_log, outcome, exc, ret,
                 peak_memory, samples, reported_peak>>
handlerVars == <<request, hpc, hret>>
sitemapVars == <<sitemap_url, to_fetch, sitemap_fetches, sitemap, resolved>>

NoRequest  == [kind |-> "none", urls |-> <<>>, url |-> ""]
NoResponse == [kind |-> "none", status |-> 0, parseable |-> FALSE, doc |-> <<>>]
NoReturn   == [kind |-> "none", status |-> 0, items |-> <<>>]
NoResolved == [raised |-> FALSE, returned |-> FALSE, value |-> <<>>]

Init ==
    /\ entry = "idle"
    /\ pc = "idle"
    /\ urls = <<>>
    /\ max_concurrent = DefaultMaxConcurrent
    /\ crawler = "none"
    /\ close_calls = 0
    /\ contents = <<>>
    /\ i = 0
    /\ results = <<>>
    /\ inflight = {}
    /\ reordered = FALSE
    /\ fetch_log = <<>>
    /\ outcome = <<>>
    /\ exc = "none"
    /\ peak_memory = 0
    /\ samples = <<>>
    /\ reported_peak = 0
    /\ ret = <<>>
    /\ request = NoRequest
    /\ hpc = "idle"
    /\ hret = NoReturn
    /\ sitemap_url = ""
    /\ to_fetch = <<>>
    /\ sitemap_fetches = 0
    /\ sitemap = NoResponse
    /\ resolved = NoResolved

\* ------------------------------------------------------- crawl_sequential
\* contents = []                                   (web.py:100, web.py:147)
NewContents_nonempty == <<"">>
NewContents == <<>>

\* session_id = "session1"                          (web.py:102)
SequentialSession == <<"session", 1>>

\* the if/else on result.success                    (web.py:109-114)
SeqEvaluate_ignore_success(result) == result.raw_markdown
SeqEvaluate(result) == IF result.success THEN result.raw_markdown ELSE ""

\* where control goes when the awaited arun raises inside try: the finally
\* block                                            (web.py:101, 115-117)
SeqOnRaise_no_finally == "raised"
SeqOnRaise == "seq_finally"

\* crawler = AsyncWebCrawler(config=browser_config)
StartCrawl(us, k, first) ==
    /\ urls' = us
    /\ max_concurrent' = k
    /\ crawler' = "created"
    /\ pc' = first
    /\ outcome' = [g \in 1..Len(us) |-> "none"]
    /\ UNCHANGED <<close_calls, contents, i, results, inflight, reordered, fetch_log,
                   exc, ret, memVars>>

CallSequential(us) ==
    /\ entry = "idle"
    /\ entry' = "crawl_sequential"
    /\ StartCrawl(us, max_concurrent, "seq_start")
    /\ UNCHANGED <<handlerVars, sitemapVars>>

\* await crawler.start(); contents = []
SeqStart ==
    /\ pc = "seq_start"
    /\ \/ /\ crawler' = "open"
          /\ contents' = NewContents
          /\ i' = 0
          /\ pc' = "seq_loop"
          /\ exc' = exc
       \/ /\ exc' = "StartError"
          /\ pc' = "raised"
          /\ UNCHANGED <<crawler, contents, i>>
    /\ UNCHANGED <<entry, reordered, urls, max_concurrent, close_calls, results, inflight,
                   fetch_log, outcome, ret, handlerVars, sitemapVars, memVars>>

\* for url in urls: crawler.arun(url=url, config=..., session_id=session_id)
SeqFetch ==
    /\ pc = "seq_loop"
    /\ i < Len(urls)
    /\ i' = i + 1
    /\ inflight' = {i + 1}
    /\ fetch_log' = Append(fetch_log,
                      [g |-> i + 1, url |-> urls[i + 1], session_id |-> SequentialSession])
    /\ pc' = "seq_await"
    /\ UNCHANGED <<entry, reordered, urls, max_concurrent, crawler, close_calls, contents,
                   results, outcome, exc, ret, handlerVars, sitemapVars, memVars>>

\* the awaited arun settles: a result is evaluated, an exception leaves the try
SeqSettle(o) ==
    /\ pc = "seq_await"
    /\ LET result == arun(urls[i], o) IN
         IF result.kind = "exception"
           THEN /\ exc' = "FetchError"
                /\ pc' = SeqOnRaise
                /\ contents' = contents
           ELSE /\ contents' = Append(contents, SeqEvaluate(result))
                /\ pc' = "seq_loop"
                /\ exc' = exc
    /\ outcome' = [outcome EXCEPT ![i] = o]
    /\ inflight' = {}
    /\ UNCHANGED <<entry, reordered, urls, max_concurrent, crawler, close_calls, i, results,
                   fetch_log, ret, handlerVars, sitemapVars, memVars>>

\* finally: await crawler.close(); then return contents or re-raise
SeqClose ==
    /\ \/ pc = "seq_loop" /\ i >= Len(urls)
       \/ pc = "seq_finally"
    /\ crawler' = "closed"
    /\ close_calls' = close_calls + 1
    /\ IF exc = "none"
         THEN pc' = "returned" /\ ret' = contents
         ELSE pc' = "raised" /\ ret' = ret
    /\ UNCHANGED <<entry, reordered, urls, max_concurrent, contents, i, results, inflight,
                   fetch_log, outcome, exc, handlerVars, sitemapVars, memVars>>

crawl_sequential ==
    \/ \E us \in UrlLists : CallSequential(us)
    \/ SeqStart
    \/ SeqFetch
    \/ \E o \in Outcomes : SeqSettle(o)
    \/ SeqClose

\* ------------------------------------------------------------- fetch_urls
\* the if/else on result.success                     (web.py:58-64)
FuEvaluate(result) == IF result.success THEN result.fit_markdown ELSE ""

\* where control goes when the awaited arun raises: the except of the inner
\* try appends "" and the for loop goes on            (web.py:54, 65-67)
FuOnRaise_no_inner_try == "fu_unwind"
FuOnRaise == "fu_loop"

\* crawler.arun(url, config=config) passes no session_id
NoSession == <<"", 0>>

\* fetch_urls(urls) is awaited: if not urls: return []
CallFetchUrls(us) ==
    /\ entry = "idle"
    /\ entry' = "fetch_urls"
    /\ urls' = us
    /\ outcome' = [g \in 1..Len(us) |-> "none"]
    /\ IF us = <<>>
         THEN pc' = "returned" /\ ret' = <<>>
         ELSE pc' = "fu_config" /\ ret' = ret
    /\ UNCHANGED <<max_concurrent, crawler, close_calls, contents, i, results,
                   inflight, reordered, fetch_log, exc, memVars, handlerVars,
                   sitemapVars>>

\* config = CrawlerRunConfig(...); contents = []; a failure is caught by the
\* outer except, which returns []
FuConfig ==
    /\ pc = "fu_config"
    /\ \/ /\ contents' = NewContents
          /\ pc' = "fu_enter"
          /\ ret' = ret
       \/ /\ ret' = <<>>
          /\ pc' = "returned"
          /\ contents' = contents
    /\ UNCHANGED <<entry, urls, max_concurrent, crawler, close_calls, i, results,
                   inflight, reordered, fetch_log, outcome, exc, memVars,
                   handlerVars, sitemapVars>>

\* async with AsyncWebCrawler() as crawler: the crawler is created and
\* started; a failure is caught by the outer except, which returns []
FuEnter ==
    /\ pc = "fu_enter"
    /\ \/ /\ crawler' = "open"
          /\ i' = 0
          /\ pc' = "fu_loop"
          /\ ret' = ret
       \/ /\ crawler' = "created"
          /\ ret' = <<>>
          /\ pc' = "returned"
          /\ i' = i
    /\ UNCHANGED <<entry, urls, max_concurrent, close_calls, contents, results,
                   inflight, reordered, fetch_log, outcome, exc, memVars,
                   handlerVars, sitemapVars>>

\* for url in urls: crawler.arun(url, config=config)
FuFetch ==
    /\ pc = "fu_loop"
    /\ i < Len(urls)
    /\ i' = i + 1
    /\ inflight' = {i + 1}
    /\ fetch_log' = Append(fetch_log,
                      [g |-> i + 1, url |-> urls[i + 1], session_id |-> NoSession])
    /\ pc' = "fu_await"
    /\ UNCHANGED <<entry, urls, max_concurrent, crawler, close_calls, contents,
                   results, reordered, outcome, exc, ret, memVars, handlerVars,
                   sitemapVars>>

\* the awaited arun settles: a result is evaluated; an exception is caught by
\* the inner except, which appends ""
FuSettle(o) ==
    /\ pc = "fu_await"
    /\ LET result == arun(urls[i], o) IN
         IF result.kind = "exception"
           THEN /\ pc' = FuOnRaise
                /\ contents' = IF FuOnRaise = "fu_loop"
                                 THEN Append(contents, "") ELSE contents
           ELSE /\ contents' = Append(contents, FuEvaluate(result))
                /\ pc' = "fu_loop"
    /\ outcome' = [outcome EXCEPT ![i] = o]
    /\ inflight' = {}
    /\ UNCHANGED <<entry, urls, max_concurrent, crawler, close_calls, i, results,
                   reordered, fetch_log, exc, ret, memVars, handlerVars,
                   sitemapVars>>

\* the async with block is left: the crawler is closed; return contents, or
\* [] from the outer except when an exception is unwinding
FuExit ==
    /\ \/ pc = "fu_loop" /\ i >= Len(urls)
       \/ pc = "fu_unwind"
    /\ crawler' = "closed"
    /\ close_calls' = close_calls + 1
    /\ ret' = IF pc = "fu_unwind" THEN <<>> ELSE contents
    /\ pc' = "returned"
    /\ UNCHANGED <<entry, urls, max_concurrent, contents, i, results, inflight,
                   reordered, fetch_log, outcome, exc, memVars, handlerVars,
                   sitemapVars>>

fetch_urls ==
    \/ \E us \in UrlLists : CallFetchUrls(us)
    \/ FuConfig
    \/ FuEnter
    \/ FuFetch
    \/ \E o \in Outcomes : FuSettle(o)
    \/ FuExit

\* --------------------------------------------------------- crawl_parallel
\* batch = urls[i : i + max_concurrent]             (web.py:151)
Batch_short(us, start, k) == SubSeq(us, start + 1, Min(start + k - 1, Len(us)))
Batch_long(us, start, k) == SubSeq(us, start + 1, Min(start + k + 1, Len(us)))
Batch(us, start, k) == SubSeq(us, start + 1, Min(start + k, Len(us)))

\* session_id = f"parallel_session_{i + j}"         (web.py:156)
ParallelSession_batch_local(start, j) == <<"parallel_session_", j>>
ParallelSession(start, j) == <<"parallel_session_", start + j>>

\* asyncio.gather(*tasks, return_exceptions=True)   (web.py:164)
return_exceptions_off == FALSE
return_exceptions == TRUE

\* gather puts the result of the task at position j of tasks at position j of
\* its result list, whatever the number of tasks that settled before it
GatherSlot_completion_order(j, nsettled) == nsettled + 1
GatherSlot(j, nsettled) == j

\* the isinstance / result.success chain             (web.py:171-178)
ParEvaluate_str_of_exception(result) ==
    IF result.kind = "exception" THEN "error"
    ELSE IF result.success THEN result.raw_markdown ELSE ""
ParEvaluate(result) ==
    IF result.kind = "exception" THEN ""
    ELSE IF result.success THEN result.raw_markdown
    ELSE ""

\* 1024 * 1024                                       (web.py:133, web.py:185)
MB == 1024 * 1024

\* log_memory: current_mem = rss; if current_mem > peak_memory: peak_memory =
\* current_mem. The value is the new peak_memory.     (web.py:128-133)
log_memory_last_sample(peak, current_mem) == current_mem
log_memory(peak, current_mem) == IF current_mem > peak THEN current_mem ELSE peak

\* one call of log_memory at the place `at`, reading rss = current_mem
LogMemory(at, current_mem) ==
    /\ peak_memory' = log_memory(peak_memory, current_mem)
    /\ samples' = Append(samples, [at |-> at, rss |-> current_mem])

CallParallel(us, k) ==
    /\ entry = "idle"
    /\ entry' = "crawl_parallel"
    /\ StartCrawl(us, k, "par_start")
    /\ UNCHANGED <<handlerVars, sitemapVars>>

\* await crawler.start(); contents = []
ParStart ==
    /\ pc = "par_start"
    /\ \/ /\ crawler' = "open"
          /\ contents' = NewContents
          /\ i' = 0
          /\ pc' = "par_loop"
          /\ exc' = exc
       \/ /\ exc' = "StartError"
          /\ pc' = "raised"
          /\ UNCHANGED <<crawler, contents, i>>
    /\ UNCHANGED <<entry, reordered, urls, max_concurrent, close_calls, results, inflight,
                   fetch_log, outcome, ret, handlerVars, sitemapVars, memVars>>

\* one iteration of for i in range(0, len(urls), max_concurrent) up to the
\* await of gather: the batch is sliced, one arun per item is created with its
\* session_id, and gather schedules them all
ParDispatch(current_mem) ==
    /\ pc = "par_loop"
    /\ LogMemory("before", current_mem)
    /\ i < Len(urls)
    /\ LET batch == Batch(urls, i, max_concurrent) IN
         /\ results' = [j \in 1..Len(batch) |-> Pending]
         /\ inflight' = 1..Len(batch)
         /\ fetch_log' = fetch_log \o
               [j \in 1..Len(batch) |->
                  [g |-> i + j, url |-> batch[j], session_id |-> ParallelSession(i, j - 1)]]
    /\ pc' = "par_gather"
    /\ UNCHANGED <<entry, reordered, urls, max_concurrent, crawler, close_calls, contents, i,
                   outcome, exc, ret, handlerVars, sitemapVars, reported_peak>>

\* one task of the running batch settles, in any order
ParSettle(j, o) ==
    /\ pc = "par_gather"
    /\ j \in inflight
    /\ LET batch   == Batch(urls, i, max_concurrent)
           result  == arun(batch[j], o)
           settled == Len(batch) - Cardinality(inflight)
       IN IF result.kind = "exception" /\ ~return_exceptions
            THEN /\ exc' = "FetchError"
                 /\ pc' = "par_finally"
                 /\ results' = results
            ELSE /\ results' = [results EXCEPT ![GatherSlot(j, settled)] = result]
                 /\ UNCHANGED <<exc, pc>>
    /\ inflight' = inflight \ {j}
    /\ reordered' = (reordered \/ \E earlier \in inflight : earlier < j)
    /\ outcome' = [outcome EXCEPT ![i + j] = o]
    /\ UNCHANGED <<entry, urls, max_concurrent, crawler, close_calls, contents, i,
                   fetch_log, ret, handlerVars, sitemapVars, memVars>>

\* gather returns once every task settled; for url, result in zip(batch, results)
ParCollect(current_mem) ==
    /\ pc = "par_gather"
    /\ LogMemory("after", current_mem)
    /\ inflight = {}
    /\ LET batch == Batch(urls, i, max_concurrent)
           n     == Min(Len(batch), Len(results))
       IN contents' = contents \o [j \in 1..n |-> ParEvaluate(results[j])]
    /\ i' = i + max_concurrent
    /\ pc' = "par_loop"
    /\ UNCHANGED <<entry, reordered, urls, max_concurrent, crawler, close_calls, results,
                   inflight, fetch_log, outcome, exc, ret, handlerVars, sitemapVars, reported_peak>>

\* finally: await crawler.close(); then return contents or re-raise
ParClose(current_mem) ==
    /\ \/ pc = "par_loop" /\ i >= Len(urls)
       \/ pc = "par_finally"
    /\ LogMemory("final", current_mem)
    /\ reported_peak' = log_memory(peak_memory, current_mem) \div MB
    /\ crawler' = "closed"
    /\ close_calls' = close_calls + 1
    /\ IF exc = "none"
         THEN pc' = "returned" /\ ret' = contents
         ELSE pc' = "raised" /\ ret' = ret
    /\ UNCHANGED <<entry, reordered, urls, max_concurrent, contents, i, results, inflight,
                   fetch_log, outcome, exc, handlerVars, sitemapVars>>

crawl_parallel ==
    \/ \E us \in UrlLists, k \in 1..MaxK : CallParallel(us, k)
    \/ ParStart
    \/ \E m \in SteadyRss : ParDispatch(m)
    \/ \E j \in inflight, o \in Outcomes : ParSettle(j, o)
    \/ \E m \in SteadyRss : ParCollect(m)
    \/ \E m \in SteadyRss : ParClose(m)

\* crawl_parallel under a varying resident set size
crawl_parallel_memory ==
    \/ \E us \in MemUrlLists, k \in 1..MaxK : CallParallel(us, k)
    \/ ParStart
    \/ \E m \in RssValues : ParDispatch(m)
    \/ \E j \in inflight : ParSettle(j, "ok")
    \/ \E m \in RssValues : ParCollect(m)
    \/ \E m \in RssValues : ParClose(m)

\* ---------------------------------------------- get_pydantic_ai_docs_urls
\* response.raise_for_status(): raises HTTPError on a 4xx / 5xx status
raise_for_status_never(resp) == FALSE
raise_for_status(resp) == resp.status >= 400

\* root.findall('.//ns:loc', namespace): every <loc> of the document, in
\* document order, whatever element wraps it; urls = [loc.text for loc in ...]
RECURSIVE Dedup(_)
Dedup(seq) ==
    IF seq = <<>> THEN <<>>
    ELSE <<Head(seq)>> \o SelectSeq(Dedup(Tail(seq)), LAMBDA x : x # Head(seq))
findall_loc_dedup(doc) == Dedup([n \in 1..Len(doc) |-> doc[n].loc])
findall_loc_url_only(doc) ==
    LET pages == SelectSeq(doc, LAMBDA e : e.wrapper = "url")
    IN [n \in 1..Len(pages) |-> pages[n].loc]
findall_loc(doc) == [n \in 1..Len(doc) |-> doc[n].loc]

\* the body of the try block: the exception it ends with, or the value
TrySitemap(resp) ==
    IF resp.kind = "transport_error"
      THEN [exc |-> "ConnectionError", value |-> <<>>]
    ELSE IF raise_for_status(resp)
      THEN [exc |-> "HTTPError", value |-> <<>>]
    ELSE IF ~resp.parseable
      THEN [exc |-> "ParseError", value |-> <<>>]
    ELSE [exc |-> "none", value |-> findall_loc(resp.doc)]

\* try: ... return urls  except Exception as e: ... return []
get_pydantic_ai_docs_urls_except_requests_only(resp) ==
    LET r == TrySitemap(resp) IN
      IF r.exc \in {"ConnectionError", "HTTPError"}
        THEN [raised |-> FALSE, returned |-> TRUE, value |-> <<>>]
      ELSE IF r.exc # "none"
        THEN [raised |-> TRUE, returned |-> FALSE, value |-> <<>>]
      ELSE [raised |-> FALSE, returned |-> TRUE, value |-> r.value]
get_pydantic_ai_docs_urls(resp) ==
    LET r == TrySitemap(resp) IN
      IF r.exc # "none"
        THEN [raised |-> FALSE, returned |-> TRUE, value |-> <<>>]
        ELSE [raised |-> FALSE, returned |-> TRUE, value |-> r.value]

\* the sitemap URLs found in the fetched document that the resolver goes on
\* to request: none, return urls hands every <loc> back as it is
\*                                                   (web.py:208-210)
SubSitemaps_recursive(resp) ==
    IF resp.kind = "http" /\ resp.parseable
      THEN SelectSeq(findall_loc(resp.doc), LAMBDA u : u \in SitemapUrls)
      ELSE <<>>
SubSitemaps(resp) == <<>>

\* get_pydantic_ai_docs_urls(sitemap_url) is called
CallResolver(u) ==
    /\ entry = "idle"
    /\ entry' = "get_pydantic_ai_docs_urls"
    /\ sitemap_url' = u
    /\ to_fetch' = <<u>>
    /\ UNCHANGED <<sitemap_fetches, sitemap, resolved, crawlVars, handlerVars>>

\* requests.get(sitemap_url) answers; the rest of the function runs
ResolverFetch(resp) ==
    /\ entry = "get_pydantic_ai_docs_urls"
    /\ to_fetch # <<>>
    /\ sitemap_fetches' = sitemap_fetches + 1
    /\ sitemap' = resp
    /\ resolved' = get_pydantic_ai_docs_urls(resp)
    /\ to_fetch' = Tail(to_fetch) \o SubSitemaps(resp)
    /\ UNCHANGED <<entry, sitemap_url, crawlVars, handlerVars>>

\* ------------------------------------------------------------ api handlers
\* calling an async def function without awaiting it yields a coroutine object
\* and runs none of its body                         (api.py:32, web.py:25)
fetch_urls_unawaited(us) == [kind |-> "coroutine", items |-> <<>>]

\* flask.jsonify: serialises lists and dicts of strings, raises TypeError
\* for an object that is not JSON serializable
jsonify(v) ==
    IF v.kind = "list"
      THEN [exc |-> "none", kind |-> "json_array", items |-> v.items]
      ELSE [exc |-> "TypeError", kind |-> "none", items |-> <<>>]

\* return jsonify({"detail": str(e)}), status
Detail(status) == [kind |-> "detail", status |-> status, items |-> <<>>]
JsonArray(items) == [kind |-> "json_array", status |-> 200, items |-> items]
\* a view function that falls off its end returns None
ReturnsNone == [kind |-> "None", status |-> 0, items |-> <<>>]

\* CrawlRequest(**data) / SitemapRequest(**data)      (api.py:30, api.py:48)
Validate_lenient(body) ==
    CASE body.kind = "not_mapping" -> "TypeError"
      [] OTHER                     -> "none"
Validate(body) ==
    CASE body.kind = "not_mapping" -> "TypeError"
      [] body.kind = "invalid"     -> "ValidationError"
      [] OTHER                     -> "none"

\* POST /crawl
crawl_urls(body) ==
    /\ entry = "idle"
    /\ entry' = "crawl_urls"
    /\ request' = body
    /\ hpc' = "done"
    /\ LET v == Validate(body) IN
         IF v = "ValidationError" THEN hret' = Detail(400)
         ELSE IF v # "none" THEN hret' = Detail(500)
         ELSE LET coro == fetch_urls_unawaited(body.urls)
                  js   == jsonify(coro)
              IN IF js.exc # "none"
                   THEN hret' = Detail(500)
                   ELSE hret' = JsonArray(js.items)
    /\ UNCHANGED <<crawlVars, sitemapVars>>

\* POST /website-url, up to the await of crawl_parallel(urls)
crawl_website(body, resp) ==
    /\ entry = "idle"
    /\ entry' = "crawl_website"
    /\ request' = body
    /\ LET v == Validate(body) IN
         IF v # "none"
           THEN /\ hret' = IF v = "ValidationError" THEN Detail(400) ELSE Detail(500)
                /\ hpc' = "done"
                /\ UNCHANGED <<crawlVars, sitemapVars>>
           ELSE LET r == get_pydantic_ai_docs_urls(resp) IN
                /\ sitemap_url' = body.url
                /\ sitemap_fetches' = sitemap_fetches + 1
                /\ to_fetch' = to_fetch
                /\ sitemap' = resp
                /\ resolved' = r
                /\ IF r.raised
                     THEN /\ hret' = Detail(500)
                          /\ hpc' = "done"
                          /\ UNCHANGED crawlVars
                   ELSE IF r.value # <<>>
                     THEN /\ StartCrawl(r.value, DefaultMaxConcurrent, "par_start")
                          /\ hpc' = "await_crawl"
                          /\ hret' = hret
                     ELSE /\ hret' = ReturnsNone
                          /\ hpc' = "done"
                          /\ UNCHANGED crawlVars

\* crawl_parallel returned or raised: return jsonify(results) / the 500 branch
crawl_website_resume ==
    /\ hpc = "await_crawl"
    /\ pc \in {"returned", "raised"}
    /\ hpc' = "done"
    /\ IF pc = "raised"
         THEN hret' = Detail(500)
         ELSE LET js == jsonify([kind |-> "list", items |-> ret]) IN
                IF js.exc # "none" THEN hret' = Detail(500)
                ELSE hret' = JsonArray(js.items)
    /\ UNCHANGED <<entry, request, crawlVars, sitemapVars>>

api ==
    \/ \E body \in CrawlBodies : crawl_urls(body)
    \/ \E body \in SitemapBodies, resp \in Responses : crawl_website(body, resp)
    \/ crawl_website_resume

Next ==
    \/ fetch_urls
    \/ crawl_sequential
    \/ crawl_parallel
    \/ \E u \in SitemapUrls : CallResolver(u)
    \/ \E resp \in Responses : ResolverFetch(resp)
    \/ api

Spec == Init /\ [][Next]_vars

SpecMem == Init /\ [][crawl_parallel_memory]_vars

\* ================================================================= claims
Terminal    == {"returned", "raised"}
InParallel  == entry \in {"crawl_parallel", "crawl_website"} /\ crawler # "none"
InSequential == entry = "crawl_sequential"

\* the slot the fetch of urls[g] must end in: its markdown on success, the
\* empty string otherwise
Expected(g) == IF outcome[g] = "ok" THEN Markdown(urls[g]) ELSE ""

\* C1: the list crawl_parallel returns has exactly one slot per input URL,
\* whatever max_concurrent is and however each fetch ended.
C1_ParallelLength ==
    (InParallel /\ pc = "returned") => Len(ret) = Len(urls)

C1_Witness ==
    /\ entry = "crawl_parallel" /\ pc = "returned"
    /\ Len(urls) = 4 /\ max_concurrent = 3
    /\ \E g \in 1..4 : outcome[g] = "exc"
    /\ \E g \in 1..4 : outcome[g] = "fail"
    /\ Len(ret) = 4

\* C2: slot g of the list crawl_parallel returns holds the outcome of the
\* fetch of urls[g], in whatever order the fetches of a batch settled.
C2_ParallelOrder ==
    (InParallel /\ pc = "returned") =>
        \A g \in 1..Len(urls) : g <= Len(ret) /\ ret[g] = Expected(g)

C2_Witness ==
    /\ entry = "crawl_parallel" /\ pc = "returned" /\ reordered
    /\ max_concurrent = 3
    /\ urls = <<"u1", "u2", "u1", "u2">>
    /\ ret = <<"md1", "md2", "md1", "md2">>

\* C3: a fetch that raised or reported success=False never aborts the batch
\* or the run: no exception leaves the loop, and at the return every URL was
\* fetched, the failed slots are empty and the others hold their own result.
C3_FailureIsolated ==
    (InParallel /\ \E g \in 1..Len(urls) : outcome[g] \in {"fail", "exc"}) =>
        /\ exc = "none"
        /\ pc \notin {"par_finally", "raised"}
        /\ pc = "returned" =>
              /\ Len(fetch_log) = Len(urls)
              /\ \A g \in 1..Len(urls) :
                    /\ outcome[g] # "none"
                    /\ g <= Len(ret)
                    /\ outcome[g] # "ok" => ret[g] = ""
                    /\ outcome[g] = "ok" => ret[g] = Markdown(urls[g])

C3_Witness ==
    /\ entry = "crawl_parallel" /\ pc = "returned"
    /\ max_concurrent = 3
    /\ urls = <<"u1", "u2", "u1", "u2">>
    /\ outcome = <<"ok", "exc", "ok", "ok">>
    /\ ret = <<"md1", "", "md1", "md2">>

\* C4: whenever crawl_sequential returns, its list has one slot per URL and
\* slot g is the raw markdown of urls[g] on success, "" on success=False.
C4_SequentialResult ==
    (InSequential /\ pc = "returned") =>
        /\ Len(ret) = Len(urls)
        /\ \A g \in 1..Len(urls) : ret[g] = Expected(g)

C4_Witness ==
    /\ InSequential /\ pc = "returned"
    /\ urls = <<"u1", "u2", "u2">>
    /\ outcome = <<"ok", "fail", "ok">>
    /\ ret = <<"md1", "", "md2">>

\* C5 (as claimed): a failed fetch in crawl_sequential, raised exceptions
\* included, is not raised to the caller; its slot is "" and the remaining
\* URLs are still fetched.
C5_SequentialSwallows ==
    (InSequential /\ pc \in Terminal /\ exc # "StartError") =>
        /\ pc = "returned"
        /\ \A g \in 1..Len(urls) :
              /\ outcome[g] # "none"
              /\ outcome[g] # "ok" => (g <= Len(ret) /\ ret[g] = "")

\* C6: called with an empty URL list, crawl_sequential and crawl_parallel
\* return the empty list and issue no fetch.
C6_EmptyInput ==
    ((InSequential \/ InParallel) /\ urls = <<>> /\ pc = "returned") =>
        ret = <<>> /\ fetch_log = <<>>

C6_Witness ==
    /\ entry = "crawl_parallel" /\ urls = <<>> /\ pc = "returned"
    /\ max_concurrent = 2 /\ crawler = "closed"
    /\ ret = <<>> /\ fetch_log = <<>>

\* C7: a crawler that was started is closed exactly once by the time the
\* crawl function returns or raises, also when a fetch raised mid-run; it is
\* never closed twice and never left open.
C7_ClosedExactlyOnce ==
    /\ close_calls <= 1
    /\ ((InSequential \/ InParallel) /\ pc \in Terminal /\ exc # "StartError") =>
          (close_calls = 1 /\ crawler = "closed")
    /\ crawler = "closed" <=> close_calls = 1

C7_Witness ==
    /\ InSequential /\ pc = "raised" /\ exc = "FetchError"
    /\ Len(urls) = 3 /\ outcome = <<"ok", "exc", "none">>
    /\ close_calls = 1 /\ crawler = "closed"

\* C8 (as claimed): a POST /crawl whose body validates is answered with a
\* JSON array with one string per input URL.
C8_CrawlAnswersArray ==
    (entry = "crawl_urls" /\ hpc = "done" /\ request.kind = "valid") =>
        /\ hret.kind = "json_array"
        /\ Len(hret.items) = Len(request.urls)

\* C9 (as claimed): the /website-url handler answers every valid request
\* with a JSON array or with an error response carrying a detail field,
\* also when the sitemap resolves to zero URLs.
C9_WebsiteAlwaysAnswers ==
    (entry = "crawl_website" /\ hpc = "done" /\ request.kind = "valid") =>
        hret.kind \in {"json_array", "detail"}

\* C10: get_pydantic_ai_docs_urls never raises, and returns the empty list
\* when the fetch fails at transport level, the status is an HTTP error, or
\* the body is not parseable XML.
SitemapFailed ==
    \/ sitemap.kind = "transport_error"
    \/ sitemap.status >= 400
    \/ ~sitemap.parseable
C10_ResolverFailSoft ==
    sitemap.kind # "none" =>
        /\ ~resolved.raised
        /\ resolved.returned
        /\ SitemapFailed => resolved.value = <<>>

C10_Witness ==
    /\ entry = "get_pydantic_ai_docs_urls"
    /\ sitemap.kind = "http" /\ sitemap.status = 404
    /\ sitemap.parseable /\ Len(sitemap.doc) = 2
    /\ resolved.returned /\ resolved.value = <<>>

\* ------------------------------------------------ sitemap scenarios
Served(doc) == [kind |-> "http", status |-> 200, parseable |-> TRUE, doc |-> doc]

\* a sitemap index that references the leaf sitemaps smA then smB, and the
\* page URLs the two leaves list (2 and 3)
IndexAB == <<[wrapper |-> "sitemap", loc |-> "smA"], [wrapper |-> "sitemap", loc |-> "smB"]>>
PagesOfA == <<"u1", "u2">>
PagesOfB == <<"u2", "u1", "u2">>

IndexABResolved ==
    /\ entry = "get_pydantic_ai_docs_urls"
    /\ sitemap_url = "sm1"
    /\ sitemap = Served(IndexAB)
    /\ resolved.returned

SelfReferential ==
    /\ sitemap.kind = "http" /\ sitemap.status = 200 /\ sitemap.parseable
    /\ \E n \in 1..Len(sitemap.doc) :
          sitemap.doc[n].wrapper = "sitemap" /\ sitemap.doc[n].loc = sitemap_url
C12_SelfReferenceTerminates ==
    /\ sitemap_fetches <= 1
    /\ SelfReferential =>
          /\ resolved.returned
          /\ sitemap_fetches = 1
          /\ to_fetch = <<>>

C12_Witness ==
    /\ entry = "get_pydantic_ai_docs_urls"
    /\ sitemap_url = "smA"
    /\ sitemap = Served(<<[wrapper |-> "sitemap", loc |-> "smA"]>>)
    /\ resolved.returned /\ resolved.value = <<"smA">>
    /\ sitemap_fetches = 1 /\ to_fetch = <<>>

\* C14 (as claimed): no URL occurs twice in the list the resolver returns.
C14_Deduplicated ==
    resolved.returned =>
        \A m, n \in 1..Len(resolved.value) :
            m # n => resolved.value[m] # resolved.value[n]

\* C14 (amended): the list the resolver returns has one entry per <loc>
\* element of the document, in document order, repeated values included.
C14_OneEntryPerLoc ==
    (resolved.returned /\ ~SitemapFailed) =>
        /\ Len(resolved.value) = Len(sitemap.doc)
        /\ \A n \in 1..Len(sitemap.doc) : resolved.value[n] = sitemap.doc[n].loc

C14_Witness ==
    /\ entry = "get_pydantic_ai_docs_urls"
    /\ sitemap = Served(<<[wrapper |-> "url", loc |-> "u1"], [wrapper |-> "url", loc |-> "u1"]>>)
    /\ resolved.returned
    /\ resolved.value = <<"u1", "u1">>

\* ------------------------------------------------ peak memory
MaxOf(S) ==
    IF S = {} THEN 0
    ELSE LET x == CHOOSE y \in S : \A z \in S : z <= y IN x

BatchSamples == {samples[n].rss : n \in {k \in 1..Len(samples) : samples[k].at \in {"before", "after"}}}
AllSamples   == {samples[n].rss : n \in 1..Len(samples)}
ParallelFinished == entry = "crawl_parallel" /\ pc \in Terminal /\ crawler = "closed"

\* C13 (as claimed): the peak crawl_parallel reports is the maximum over
\* exactly the samples taken before and after each batch.
C13_PeakOverBatchSamples ==
    (ParallelFinished /\ BatchSamples # {}) => reported_peak = MaxOf(BatchSamples) \div MB

\* C13 (amended): the peak crawl_parallel reports is the maximum over the
\* samples taken before and after each batch and the final sample taken
\* after the crawler was closed, in whole megabytes.
C13_PeakOverAllSamples ==
    ParallelFinished =>
        /\ reported_peak = MaxOf(AllSamples) \div MB
        /\ peak_memory = MaxOf(AllSamples)
        /\ Len(samples) = 2 * ((Len(urls) + max_concurrent - 1) \div max_concurrent) + 1

C13_Witness ==
    /\ ParallelFinished /\ pc = "returned"
    /\ Len(urls) = 4 /\ max_concurrent = 3
    /\ Len(samples) = 5
    /\ samples[2].rss = 3 * MB /\ samples[5].rss = MB
    /\ reported_peak = 3

\* ------------------------------------------------ scheduling
\* C15: batches never overlap and concurrency is bounded: at most
\* max_concurrent fetches are in flight, and every fetch that has not
\* settled belongs to the batch being gathered, so all fetches of earlier
\* batches have settled.
C15_BatchesSequential ==
    InParallel =>
        /\ Cardinality(inflight) <= max_concurrent
        /\ Cardinality({n \in 1..Len(fetch_log) : outcome[fetch_log[n].g] = "none"})
              <= max_concurrent
        /\ \A n \in 1..Len(fetch_log) :
              outcome[fetch_log[n].g] = "none" =>
                  /\ pc = "par_gather"
                  /\ fetch_log[n].g > i
                  /\ (fetch_log[n].g - i) \in inflight

C15_Witness ==
    /\ entry = "crawl_parallel" /\ pc = "par_gather"
    /\ max_concurrent = 2 /\ Len(urls) = 4 /\ i = 2
    /\ inflight = {1, 2}
    /\ outcome = <<"exc", "fail", "none", "none">>

\* C16: the item at (0-based) global index g is fetched with session key
\* parallel_session_g, and no two fetches of a run share a session key.
C16_SessionPerItem ==
    InParallel =>
        /\ \A n \in 1..Len(fetch_log) :
              /\ fetch_log[n].url = urls[n]
              /\ fetch_log[n].session_id = <<"parallel_session_", n - 1>>
        /\ \A m, n \in 1..Len(fetch_log) :
              m # n => fetch_log[m].session_id # fetch_log[n].session_id

C16_Witness ==
    /\ entry = "crawl_parallel" /\ pc = "returned"
    /\ max_concurrent = 3 /\ Len(urls) = 4 /\ Len(fetch_log) = 4
    /\ fetch_log[3].session_id = <<"parallel_session_", 2>>
    /\ fetch_log[4].session_id = <<"parallel_session_", 3>>

\* C17: every fetch runs while the crawler is open: a fetch is only issued
\* on an open crawler, and no fetch is in flight unless the crawler is open,
\* in particular none once close() was called.
C17_FetchWhileOpen ==
    /\ [](inflight # {} => crawler = "open")
    /\ [][Len(fetch_log') > Len(fetch_log) => (crawler = "open" /\ crawler' = "open")]_vars

C17_Witness ==
    /\ entry = "crawl_parallel" /\ pc = "par_gather"
    /\ max_concurrent = 3 /\ i = 0
    /\ inflight = {1, 3} /\ outcome[2] = "exc"
    /\ crawler = "open"

\* ------------------------------------------------ request validation
\* C18: a POST /crawl or POST /website-url whose body the pydantic model
\* rejects is answered 400 with a detail field; no sitemap is requested and
\* no crawler is created for it.
C18_ValidationError400 ==
    (entry \in {"crawl_urls", "crawl_website"} /\ request.kind = "invalid") =>
        /\ hpc = "done"
        /\ hret = Detail(400)
        /\ sitemap_fetches = 0
        /\ crawler = "none"
        /\ fetch_log = <<>>

C18_Witness ==
    /\ entry = "crawl_website" /\ request.kind = "invalid" /\ hpc = "done"
    /\ hret.kind = "detail" /\ hret.status = 400
    /\ sitemap_fetches = 0 /\ crawler = "none"

\* ------------------------------------------------ fetch_urls
\* C19: fetch_urls never raises. When the crawler was acquired it returns
\* one entry per input URL in input order, "" for a fetch that failed or
\* raised; when building the configuration or acquiring the crawler failed
\* it returns the empty list, whatever the input length.
C19_FetchUrlsFailSoft ==
    entry = "fetch_urls" =>
        /\ pc # "raised"
        /\ exc = "none"
        /\ pc = "returned" =>
              IF crawler = "closed"
                THEN /\ Len(ret) = Len(urls)
                     /\ \A g \in 1..Len(urls) :
                           ret[g] = IF outcome[g] = "ok" THEN FitMarkdown(urls[g]) ELSE ""
                ELSE ret = <<>> /\ fetch_log = <<>>

C19_Witness ==
    /\ entry = "fetch_urls" /\ pc = "returned" /\ crawler = "closed"
    /\ urls = <<"u1", "u2", "u1", "u2">>
    /\ outcome = <<"ok", "exc", "fail", "ok">>
    /\ ret = <<"fit1", "", "", "fit2">>

====
